---------------------------- MODULE Spec2Model ----------------------------
(***************************************************************************)
(* Model of the browser-resident issue-reporting UI (app.js): the report   *)
(* store kept in one localStorage slot as JSON text, the submission        *)
(* handler of the "Report an Issue" modal, and the My Reports, Explore     *)
(* and Authority Dashboard views.                                          *)
(*                                                                         *)
(* A JavaScript object is modelled as the sequence of its <<key, value>>   *)
(* properties in insertion order, JSON text as a sequence of tokens, and   *)
(* a thrown exception as the field exc of an operation's outcome.          *)
(***************************************************************************)
EXTENDS Integers, Sequences, FiniteSets, TLC

VARIABLES
    storage,      \* the localStorage slot 'fixYourCityReports'
    call,         \* the last direct call of a data store function and its outcome
    tabs,         \* per browser tab, the data store function it is in the middle of
    now,          \* the clock reading Date.now() and new Date() give
    page,         \* document.body.dataset.page of the loaded document
    form,         \* the values of the report form's inputs
    submitDisabled, \* submitBtn.disabled, the busy flag
    formMessage,  \* the form message element: hidden or not, and its text
    modalHidden,  \* whether the report modal has the class hidden
    pending,      \* the submit handler suspended at await readImageAsDataURL
    timers,       \* the dismiss callbacks setTimeout holds
    phase,        \* where the latest submission attempt stands
    view,         \* what the page's view holds and shows
    last          \* the last event handled and what came of it

----------------------------------------------------------------------------
(* Bounds of the model *)

\* Reports the persisted collection may hold before addReport is no longer tried.
MaxStored == 2

\* Reports in an array handed to the newest-first sort.
MaxSorted == 3


----------------------------------------------------------------------------
(* JavaScript values *)

\* The value of a property that is not there.
Undefined == "<undefined>"

STATUS_PENDING == "Pending"
STATUS_IN_PROGRESS == "In Progress"
STATUS_RESOLVED == "Resolved"

\* The three status literals the views write and test.
Statuses == {STATUS_PENDING, STATUS_IN_PROGRESS, STATUS_RESOLVED}

\* obj[key], Undefined when the object has no such property.
Get(obj, key) ==
    LET idx == {i \in 1..Len(obj) : obj[i][1] = key}
    IN  IF idx = {} THEN Undefined ELSE obj[CHOOSE i \in idx : TRUE][2]

\* obj[key] = value: an existing property keeps its place, a new one goes last.
SetProp(obj, key, value) ==
    IF \E i \in 1..Len(obj) : obj[i][1] = key
    THEN [i \in 1..Len(obj) |-> IF obj[i][1] = key THEN <<key, value>> ELSE obj[i]]
    ELSE Append(obj, <<key, value>>)

\* The object literal { id, category, location, description, imageData,
\* status: 'Pending', submittedAt } of the submit handler.
NewReport(id, category, location, description, imageData, status, submittedAt) ==
    << <<"id", id>>, <<"category", category>>, <<"location", location>>,
       <<"description", description>>, <<"imageData", imageData>>,
       <<"status", status>>, <<"submittedAt", submittedAt>> >>

\* A JavaScript array of objects, and the values that are no array.
JSArray(items) == [type |-> "array", items |-> items]
JSOther(type) == [type |-> type, items |-> <<>>]

----------------------------------------------------------------------------
(* JSON text: a sequence of tokens *)

P(c) == <<"p", c>>        \* punctuation  [ ] { } , :
S(s) == <<"s", s>>        \* a string literal
Lit(w) == <<"lit", w>>    \* null, true, false, a number, or a word that is no JSON

\* StringifyMembers written with `if (value)`: a property whose value is '' is
\* left out of the text.
RECURSIVE StringifyMembersSkipEmpty(_, _)
StringifyMembersSkipEmpty(obj, i) ==
    IF i > Len(obj) THEN <<>>
    ELSE IF obj[i][2] = "" THEN StringifyMembersSkipEmpty(obj, i + 1)
    ELSE (IF \A j \in 1..(i - 1) : obj[j][2] = "" THEN <<>> ELSE <<P(",")>>)
         \o <<S(obj[i][1]), P(":"), S(obj[i][2])>>
         \o StringifyMembersSkipEmpty(obj, i + 1)

RECURSIVE StringifyMembers(_, _)
StringifyMembers(obj, i) ==
    IF i > Len(obj) THEN <<>>
    ELSE (IF i = 1 THEN <<>> ELSE <<P(",")>>)
         \o <<S(obj[i][1]), P(":"), S(obj[i][2])>>
         \o StringifyMembers(obj, i + 1)

StringifyObject(obj) == <<P("{")>> \o StringifyMembers(obj, 1) \o <<P("}")>>

RECURSIVE StringifyElements(_, _)
StringifyElements(items, i) ==
    IF i > Len(items) THEN <<>>
    ELSE (IF i = 1 THEN <<>> ELSE <<P(",")>>)
         \o StringifyObject(items[i])
         \o StringifyElements(items, i + 1)

\* JSON.stringify(reports) of an array of objects with string properties.
JSONStringify(items) == <<P("[")>> \o StringifyElements(items, 1) \o <<P("]")>>

ParseFail == [ok |-> FALSE, obj |-> <<>>, next |-> 0]

\* The members of an object from token i on (after "{" or after a ",").
RECURSIVE ParseMembers(_, _, _, _)
ParseMembers(t, i, obj, first) ==
    IF i > Len(t) THEN ParseFail
    ELSE IF first /\ t[i] = P("}") THEN [ok |-> TRUE, obj |-> obj, next |-> i + 1]
    ELSE IF i + 3 <= Len(t) /\ t[i][1] = "s" /\ t[i + 1] = P(":") /\ t[i + 2][1] = "s"
    THEN LET o2 == SetProp(obj, t[i][2], t[i + 2][2])
         IN  IF t[i + 3] = P(",") THEN ParseMembers(t, i + 4, o2, FALSE)
             ELSE IF t[i + 3] = P("}") THEN [ok |-> TRUE, obj |-> o2, next |-> i + 4]
             ELSE ParseFail
    ELSE ParseFail

\* An object starting at token i.
ParseObject(t, i) ==
    IF i <= Len(t) /\ t[i] = P("{") THEN ParseMembers(t, i + 1, <<>>, TRUE)
    ELSE ParseFail

\* The elements of an array from token i on (after "[" or after a ",").
RECURSIVE ParseElements(_, _, _, _)
ParseElements(t, i, items, first) ==
    IF i > Len(t) THEN ParseFail
    ELSE IF first /\ t[i] = P("]") THEN [ok |-> TRUE, obj |-> items, next |-> i + 1]
    ELSE LET e == ParseObject(t, i)
         IN  IF ~e.ok \/ e.next > Len(t) THEN ParseFail
             ELSE IF t[e.next] = P(",")
                  THEN ParseElements(t, e.next + 1, Append(items, e.obj), FALSE)
             ELSE IF t[e.next] = P("]")
                  THEN [ok |-> TRUE, obj |-> Append(items, e.obj), next |-> e.next + 1]
             ELSE ParseFail

\* JSON.parse(text): ok = FALSE is the SyntaxError it throws.
JSONParse(t) ==
    IF Len(t) = 0 THEN [ok |-> FALSE, value |-> JSOther("undefined")]
    ELSE IF Len(t) = 1 /\ t[1] = Lit("null") THEN [ok |-> TRUE, value |-> JSOther("null")]
    ELSE IF Len(t) = 1 /\ t[1] = Lit("5") THEN [ok |-> TRUE, value |-> JSOther("number")]
    ELSE IF Len(t) = 1 /\ t[1][1] = "s" THEN [ok |-> TRUE, value |-> JSOther("string")]
    ELSE IF t[1] = P("{")
    THEN LET o == ParseObject(t, 1)
         IN  IF o.ok /\ o.next = Len(t) + 1
             THEN [ok |-> TRUE, value |-> JSOther("object")]
             ELSE [ok |-> FALSE, value |-> JSOther("undefined")]
    ELSE IF t[1] = P("[")
    THEN LET a == ParseElements(t, 2, <<>>, TRUE)
         IN  IF a.ok /\ a.next = Len(t) + 1
             THEN [ok |-> TRUE, value |-> JSArray(a.obj)]
             ELSE [ok |-> FALSE, value |-> JSOther("undefined")]
    ELSE [ok |-> FALSE, value |-> JSOther("undefined")]

----------------------------------------------------------------------------
(* localStorage: the slot STORAGE_KEY *)

\* The slot before anything was stored under the key.
AbsentSlot == [present |-> FALSE, text |-> <<>>]

SlotWith(text) == [present |-> TRUE, text |-> text]

\* localStorage.getItem(STORAGE_KEY) || '[]': null and '' both give '[]'.
ItemOrDefault(slot) ==
    IF ~slot.present \/ slot.text = <<>> THEN <<P("["), P("]")>> ELSE slot.text

----------------------------------------------------------------------------
(* Data store functions.  Each gives its outcome: the slot afterwards, the  *)
(* exception that left the function ("none" when it returned) and, for      *)
(* getReports, the value returned; setItem tells whether localStorage.setItem *)
(* was called and whether it stored the text ("none", "ok", "failed").      *)

NoException == "none"

\* getReports(): the parsed slot, [] when JSON.parse throws.
GetReports(slot) ==
    LET parsed == JSONParse(ItemOrDefault(slot))
    IN  IF parsed.ok THEN parsed.value ELSE JSArray(<<>>)

\* saveReports with the setItem call in a try block whose catch only logs.
SaveReportsSwallow(slot, items, writeOk) ==
    IF writeOk
    THEN [slot |-> SlotWith(JSONStringify(items)), exc |-> NoException, setItem |-> "ok"]
    ELSE [slot |-> slot, exc |-> NoException, setItem |-> "failed"]

\* saveReports(reports): setItem throws QuotaExceededError when the write fails
\* (writeOk = FALSE) and then leaves the slot as it was.
SaveReports(slot, items, writeOk) ==
    IF writeOk
    THEN [slot |-> SlotWith(JSONStringify(items)), exc |-> NoException, setItem |-> "ok"]
    ELSE [slot |-> slot, exc |-> "QuotaExceededError", setItem |-> "failed"]

\* addReport with reports.unshift(report) for reports.push(report).
AddReportFirst(slot, report, writeOk) ==
    IF GetReports(slot).type # "array"
    THEN [slot |-> slot, exc |-> "TypeError", setItem |-> "none"]
    ELSE SaveReports(slot, <<report>> \o GetReports(slot).items, writeOk)

\* addReport(report): reports.push throws TypeError when getReports() gave no array.
AddReport(slot, report, writeOk) ==
    LET reports == GetReports(slot)
    IN  IF reports.type # "array"
        THEN [slot |-> slot, exc |-> "TypeError", setItem |-> "none"]
        ELSE SaveReports(slot, Append(reports.items, report), writeOk)

\* reports.findIndex(r => r.id === reportId): 0 stands for -1.
FindIndex(items, reportId) ==
    LET idx == {i \in 1..Len(items) : Get(items[i], "id") = reportId}
    IN  IF idx = {} THEN 0 ELSE CHOOSE i \in idx : \A j \in idx : i <= j

\* updateReportStatus that adds the report with the new status at the end
\* instead of changing it in place.
UpdateReportStatusAppend(slot, reportId, newStatus, writeOk) ==
    IF GetReports(slot).type # "array"
    THEN [slot |-> slot, exc |-> "TypeError", setItem |-> "none"]
    ELSE IF FindIndex(GetReports(slot).items, reportId) # 0
    THEN SaveReports(slot,
             Append(GetReports(slot).items,
                    SetProp(GetReports(slot).items[FindIndex(GetReports(slot).items, reportId)],
                            "status", newStatus)),
             writeOk)
    ELSE [slot |-> slot, exc |-> NoException, setItem |-> "none"]

\* updateReportStatus that saves the reports found by id instead of all of them.
UpdateReportStatusKeepMatch(slot, reportId, newStatus, writeOk) ==
    IF GetReports(slot).type # "array"
    THEN [slot |-> slot, exc |-> "TypeError", setItem |-> "none"]
    ELSE IF FindIndex(GetReports(slot).items, reportId) # 0
    THEN SaveReports(slot,
             <<SetProp(GetReports(slot).items[FindIndex(GetReports(slot).items, reportId)],
                       "status", newStatus)>>,
             writeOk)
    ELSE [slot |-> slot, exc |-> NoException, setItem |-> "none"]

\* updateReportStatus(reportId, newStatus).
UpdateReportStatus(slot, reportId, newStatus, writeOk) ==
    LET reports == GetReports(slot)
    IN  IF reports.type # "array"
        THEN [slot |-> slot, exc |-> "TypeError", setItem |-> "none"]
        ELSE LET reportIndex == FindIndex(reports.items, reportId)
             IN  IF reportIndex # 0
                 THEN SaveReports(slot,
                          [reports.items EXCEPT
                              ![reportIndex] = SetProp(@, "status", newStatus)],
                          writeOk)
                 ELSE [slot |-> slot, exc |-> NoException, setItem |-> "none"]

----------------------------------------------------------------------------
(* Dates *)

\* The values Date.now() takes in a run, in increasing order: an earlier and a
\* later reading, any time apart.
ClockReadings == {0, 1}

\* new Date(t).toISOString() of clock reading t, and new Date(text) back
\* (NaN for a text that is no date).
ToISOString(t) == "1970-01-01T00:00:00.00" \o ToString(t) \o "Z"
NaN == -1
DateParse(text) ==
    IF \E t \in ClockReadings : ToISOString(t) = text
    THEN CHOOSE t \in ClockReadings : ToISOString(t) = text
    ELSE NaN

----------------------------------------------------------------------------
(* Query functions of the views *)

Status(report) == Get(report, "status")
Id(report) == Get(report, "id")

\* reports.find in the place of reports.filter: the first match alone.
FilterByStatusFirstOnly(reports, status) ==
    IF \E i \in 1..Len(reports) : Status(reports[i]) = status
    THEN <<reports[CHOOSE i \in 1..Len(reports) :
                      /\ Status(reports[i]) = status
                      /\ \A j \in 1..(i - 1) : Status(reports[j]) # status]>>
    ELSE <<>>

\* reports.filter(r => r.status === status)
RECURSIVE FilterByStatus(_, _)
FilterByStatus(reports, status) ==
    IF reports = <<>> THEN <<>>
    ELSE (IF Status(Head(reports)) = status THEN <<Head(reports)>> ELSE <<>>)
         \o FilterByStatus(Tail(reports), status)

\* reports.filter(r => r.category === category)
RECURSIVE FilterByCategory(_, _)
FilterByCategory(reports, category) ==
    IF reports = <<>> THEN <<>>
    ELSE (IF Get(Head(reports), "category") = category THEN <<Head(reports)>> ELSE <<>>)
         \o FilterByCategory(Tail(reports), category)

\* (a, b) => new Date(b.submittedAt) - new Date(a.submittedAt); a NaN result
\* counts as 0 in Array.prototype.sort.
CompareNewestFirst(a, b) ==
    LET ta == DateParse(Get(a, "submittedAt"))
        tb == DateParse(Get(b, "submittedAt"))
    IN  IF ta = NaN \/ tb = NaN THEN 0 ELSE tb - ta

\* An insertion that puts x before the elements it ties with.
InsertSortedBeforeTies(sorted, x) ==
    LET at == CHOOSE i \in 1..(Len(sorted) + 1) :
                  /\ \A j \in i..Len(sorted) : CompareNewestFirst(x, sorted[j]) <= 0
                  /\ i > 1 => CompareNewestFirst(x, sorted[i - 1]) > 0
    IN  SubSeq(sorted, 1, at - 1) \o <<x>> \o SubSeq(sorted, at, Len(sorted))

\* One insertion of Array.prototype.sort (stable since ES2019): x goes before
\* the trailing run of elements it strictly precedes.
InsertSorted(sorted, x) ==
    LET at == CHOOSE i \in 1..(Len(sorted) + 1) :
                  /\ \A j \in i..Len(sorted) : CompareNewestFirst(x, sorted[j]) < 0
                  /\ i > 1 => CompareNewestFirst(x, sorted[i - 1]) >= 0
    IN  SubSeq(sorted, 1, at - 1) \o <<x>> \o SubSeq(sorted, at, Len(sorted))

RECURSIVE SortFrom(_, _, _)
SortFrom(reports, i, sorted) ==
    IF i > Len(reports) THEN sorted
    ELSE SortFrom(reports, i + 1, InsertSorted(sorted, reports[i]))

\* reports.sort((a, b) => new Date(b.submittedAt) - new Date(a.submittedAt))
SortNewestFirst(reports) == SortFrom(reports, 1, <<>>)

\* getStatusClass(status)
GetStatusClass(status) ==
    CASE status = STATUS_RESOLVED -> "bg-green-100 text-green-800"
      [] status = STATUS_IN_PROGRESS -> "bg-yellow-100 text-yellow-800"
      [] OTHER -> "bg-red-100 text-red-800"

----------------------------------------------------------------------------
(* The views *)

PAGE_USER == "user-dashboard"
PAGE_MY_REPORTS == "my-reports"
PAGE_EXPLORE == "explore"
PAGE_AUTHORITY == "authority-dashboard"
Pages == {PAGE_USER, PAGE_MY_REPORTS, PAGE_EXPLORE, PAGE_AUTHORITY}

FILTER_ALL == "All Reports"

\* The data-filter values of the sidebar links: all, a status, or a category.
Filters == {FILTER_ALL} \cup Statuses \cup {"Pothole"}

\* A page before its initializer ran: nothing rendered, no listener on the table
\* body, the no-reports message hidden.
EmptyView ==
    [rendered |-> <<>>, allReports |-> <<>>, currentFilter |-> FILTER_ALL,
     tbodyListeners |-> 0, noReportsMsgHidden |-> TRUE,
     stats |-> [total |-> 0, pending |-> 0, resolved |-> 0]]

\* initMyReports(): with no reports it shows the message and returns before it
\* clears the table or adds the click listener.
InitMyReports(slot, v) ==
    LET reports == GetReports(slot)
    IN  IF reports.type # "array" THEN v
        ELSE IF Len(reports.items) = 0 THEN [v EXCEPT !.noReportsMsgHidden = FALSE]
        ELSE [v EXCEPT !.rendered = SortNewestFirst(reports.items),
                       !.tbodyListeners = @ + 1]

\* initExplorePage(): the pending, in-progress and resolved lists, each newest first.
InitExplorePage(slot, v) ==
    LET reports == GetReports(slot)
    IN  IF reports.type # "array" THEN v
        ELSE [v EXCEPT !.rendered =
                 SortNewestFirst(FilterByStatus(reports.items, STATUS_PENDING))
                 \o SortNewestFirst(FilterByStatus(reports.items, STATUS_IN_PROGRESS))
                 \o SortNewestFirst(FilterByStatus(reports.items, STATUS_RESOLVED))]

\* updateStatistics()
UpdateStatistics(v) ==
    [v EXCEPT !.stats =
        [total |-> Len(v.allReports),
         pending |-> Len(FilterByStatus(v.allReports, STATUS_PENDING)),
         resolved |-> Len(FilterByStatus(v.allReports, STATUS_RESOLVED))]]

\* renderComplaintList(): under 'All Reports' filteredReports is allReports itself,
\* so the sort in place reorders allReports too.
RenderComplaintList(v) ==
    LET filteredReports ==
            IF v.currentFilter = FILTER_ALL THEN v.allReports
            ELSE IF v.currentFilter \in Statuses
                 THEN FilterByStatus(v.allReports, v.currentFilter)
            ELSE FilterByCategory(v.allReports, v.currentFilter)
        sorted == SortNewestFirst(filteredReports)
    IN  [v EXCEPT !.rendered = sorted,
                  !.allReports = IF v.currentFilter = FILTER_ALL THEN sorted ELSE @]

\* initAuthorityDashboard()
InitAuthorityDashboard(slot, v) ==
    LET reports == GetReports(slot)
    IN  IF reports.type # "array" THEN v
        ELSE RenderComplaintList(UpdateStatistics([v EXCEPT !.allReports = reports.items]))

\* The DOMContentLoaded handler's page initializer.
InitPage(p, slot) ==
    CASE p = PAGE_MY_REPORTS -> InitMyReports(slot, EmptyView)
      [] p = PAGE_EXPLORE -> InitExplorePage(slot, EmptyView)
      [] p = PAGE_AUTHORITY -> InitAuthorityDashboard(slot, EmptyView)
      [] OTHER -> EmptyView

\* createComplaintCard with 'Mark In Progress' on every card that is not in progress.
StatusButtonsOnResolved(report) ==
    (IF Status(report) # STATUS_IN_PROGRESS THEN {STATUS_IN_PROGRESS} ELSE {})
    \cup (IF Status(report) = STATUS_IN_PROGRESS \/ Status(report) = STATUS_PENDING
          THEN {STATUS_RESOLVED} ELSE {})

\* The data-status values of the status buttons createComplaintCard puts on a card.
StatusButtons(report) ==
    (IF Status(report) = STATUS_PENDING THEN {STATUS_IN_PROGRESS} ELSE {})
    \cup (IF Status(report) = STATUS_IN_PROGRESS \/ Status(report) = STATUS_PENDING
          THEN {STATUS_RESOLVED} ELSE {})

\* Whether initMyReports puts a Reopen button on the report's row.
HasReopenButton(report) == Status(report) = STATUS_RESOLVED

----------------------------------------------------------------------------
(* The report modal and its submit handler *)

\* form.querySelector('#photo-upload').files[0] when no file was chosen.
NoFile == "<no file>"

\* The bytes of an attached file, base64-encoded.
Base64(file) == IF file = "photo.png" THEN "iVBORw0KGgo=" ELSE ""

\* reader.result of readAsDataURL(file).
ReadAsDataURL(file) == "data:image/png;base64," \o Base64(file)

\* The values the inputs may hold at a submit event: all required ones given, or
\* the category, the location or the photo missing.
FormValues ==
    {[category |-> "Pothole", location |-> "Main St", description |-> "deep",
      photoFile |-> "photo.png"],
     [category |-> "", location |-> "Main St", description |-> "deep",
      photoFile |-> "photo.png"],
     [category |-> "Pothole", location |-> "", description |-> "",
      photoFile |-> "photo.png"],
     [category |-> "Pothole", location |-> "Main St", description |-> "",
      photoFile |-> NoFile]}

\* The values the inputs hold: those of the last submit event, or the defaults
\* form.reset() and a loading document give.
FormDefault ==
    [category |-> "", location |-> "", description |-> "", photoFile |-> NoFile]

\* Math.random().toString(36).substring(2, 9)
RandomSuffixes == {"4fzzzxj", "k3"}

\* generateId(): `report_${Date.now()}_${Math.random()...}`
GenerateId(t, suffix) == "report_" \o ToString(t) \o "_" \o suffix

\* The pages whose document holds the report modal: the user dashboard, and the
\* explore page the dismiss callback refreshes.
HasModal(p) == p \in {PAGE_USER, PAGE_EXPLORE}

VALIDATION_MESSAGE == "Please fill out all required fields and add a photo."
SUCCESS_TEXT == "Report submitted successfully!"

\* The validation without its test of the location, and without that of the photo.
MissingRequiredNoLocation(category, location, photoFile) ==
    category = "" \/ photoFile = NoFile

MissingRequiredNoPhoto(category, location, photoFile) ==
    category = "" \/ location = ""

\* !category || !location || !photoFile
MissingRequired(category, location, photoFile) ==
    category = "" \/ location = "" \/ photoFile = NoFile

\* error.message of what the submit handler catches; the ProgressEvent a failed
\* read rejects with has no message.
ErrorMessage(exc) ==
    CASE exc = "ValidationError" -> VALIDATION_MESSAGE
      [] exc = "QuotaExceededError" -> "The quota has been exceeded."
      [] exc = "TypeError" -> "reports.push is not a function"
      [] OTHER -> "undefined"

HiddenMessage == [hidden |-> TRUE, text |-> "", tone |-> ""]

\* The catch block: the message shown in red.
ErrorShown(exc) ==
    [hidden |-> FALSE, text |-> "Error: " \o ErrorMessage(exc), tone |-> "red"]

SuccessShown == [hidden |-> FALSE, text |-> SUCCESS_TEXT, tone |-> "green"]

NoPending ==
    [active |-> FALSE, category |-> "", location |-> "", description |-> "",
     photoFile |-> NoFile]

\* writes, excs: per store call of the handler, what setItem did and the exception
\* that left the store function; shown: the status on the clicked card or row.
NoEvent ==
    [op |-> "none", id |-> "", status |-> "", shown |-> "", writes |-> <<>>,
     excs |-> <<>>]

Event(op) == [NoEvent EXCEPT !.op = op]

----------------------------------------------------------------------------
(* The data store functions called directly, with any arguments *)

ApiIds == {"r1", "r2"}

\* Reports handed to the store functions: two valid ones, and one no validation
\* would pass (it shares the id r1).
ApiReports ==
    {NewReport("r1", "Pothole", "Main St", "", "data:image/png;base64,AAAA",
               STATUS_PENDING, ToISOString(0)),
     NewReport("r2", "Pothole", "Main St", "deep", "data:image/png;base64,AAAA",
               STATUS_RESOLVED, ToISOString(1)),
     NewReport("r1", "", "", "", "", "Bogus", "yesterday")}

SeqsUpTo(U, n) == UNION {[1..k -> U] : k \in 0..n}

\* The record of a call.  reports: the array the last saveReports that returned
\* was given; before: what getReports() gave as addReport or updateReportStatus
\* began; prev: the call before a getReports ("threw" when it threw), and for an
\* updateReportStatus "same" when the call before it was an updateReportStatus
\* with the same arguments whose write did not fail.  A filter call keeps the
\* id, status and before of an updateReportStatus that returned just before it
\* (prev says so); filter is the status it filters by, reports the array it read.
NoCall ==
    [op |-> "none", prev |-> "none", reports |-> <<>>, report |-> <<>>, id |-> "",
     status |-> "", filter |-> "", exc |-> NoException, ret |-> JSArray(<<>>),
     before |-> JSArray(<<>>)]

uiVars ==
    <<now, page, form, submitDisabled, formMessage, modalHidden, pending, timers,
      phase, view, last>>

\* Two tabs of the origin.  A tab is idle, or holds the array a store function
\* read (as the slot it read it from) and is about to change and save it, or is
\* done with the function.
Tabs == {"A", "B"}

IdleTab ==
    [pc |-> "idle", op |-> "none", report |-> <<>>, id |-> "", status |-> "",
     snapshot |-> AbsentSlot, exc |-> NoException, setItem |-> "none"]

NoTabs == [t \in Tabs |-> IdleTab]

vars == <<storage, call, tabs, uiVars>>

\* A document that just loaded page p over the slot.
Loaded(p, slot) ==
    /\ page = p
    /\ form = FormDefault
    /\ submitDisabled = FALSE
    /\ formMessage = HiddenMessage
    /\ modalHidden = TRUE
    /\ pending = NoPending
    /\ timers = 0
    /\ phase = "Idle"
    /\ view = InitPage(p, slot)
    /\ last = Event("load")

InitStore ==
    /\ storage = AbsentSlot
    /\ call = NoCall
    /\ tabs = NoTabs
    /\ now = 0
    /\ Loaded(PAGE_USER, storage)

\* Texts the slot may hold when the page loads: left by an earlier version, by
\* another script of the origin, or by hand.
SlotContents ==
    {AbsentSlot,
     SlotWith(<<>>),
     SlotWith(<<P("["), P("]")>>),
     SlotWith(JSONStringify(<<NewReport("r1", "Pothole", "Main St", "",
                  "data:image/png;base64,AAAA", STATUS_PENDING, ToISOString(0))>>)),
     SlotWith(<<Lit("oops")>>),
     SlotWith(<<P("["), P("{")>>),
     SlotWith(<<P("["), P(","), P("]")>>),
     SlotWith(<<P("{"), S("id"), P(":"), P("}")>>),
     SlotWith(<<Lit("null")>>),
     SlotWith(<<Lit("5")>>),
     SlotWith(<<S("Pothole")>>),
     SlotWith(<<P("{"), P("}")>>),
     SlotWith(<<P("{"), S("id"), P(":"), S("r1"), P("}")>>),
     SlotWith(<<P("["), P("{"), S("foo"), P(":"), S("bar"), P("}"), P("]")>>)}

\* The page loads over whatever the slot holds.
InitSlot ==
    /\ storage \in SlotContents
    /\ call = NoCall
    /\ tabs = NoTabs
    /\ now = 0
    /\ Loaded(PAGE_USER, AbsentSlot)

CallGetReports ==
    /\ call' = [NoCall EXCEPT
                  !.op = "getReports",
                  !.prev = IF call.exc = NoException THEN call.op ELSE "threw",
                  !.reports = call.reports,
                  !.ret = GetReports(storage)]
    /\ UNCHANGED <<storage, tabs, uiVars>>

CallSaveReports ==
    \E items \in SeqsUpTo(ApiReports, MaxStored), writeOk \in BOOLEAN :
        \E out \in {SaveReports(storage, items, writeOk)} :
            /\ storage' = out.slot
            /\ call' = [NoCall EXCEPT
                          !.op = "saveReports", !.exc = out.exc,
                          !.reports = IF out.exc = NoException THEN items ELSE <<>>]
            /\ UNCHANGED <<tabs, uiVars>>

CallAddReport ==
    \E report \in ApiReports, writeOk \in BOOLEAN :
        \E out \in {AddReport(storage, report, writeOk)} :
            /\ Len(GetReports(storage).items) < MaxStored
            /\ storage' = out.slot
            /\ call' = [NoCall EXCEPT !.op = "addReport", !.report = report,
                                      !.exc = out.exc, !.before = GetReports(storage)]
            /\ UNCHANGED <<tabs, uiVars>>

CallUpdateReportStatus ==
    \E id \in ApiIds \cup {"nonexistent"}, newStatus \in Statuses, writeOk \in BOOLEAN :
        \E out \in {UpdateReportStatus(storage, id, newStatus, writeOk)} :
            /\ storage' = out.slot
            /\ call' = [NoCall EXCEPT !.op = "updateReportStatus", !.id = id,
                                      !.status = newStatus, !.exc = out.exc,
                                      !.prev = IF /\ call.op = "updateReportStatus"
                                                  /\ call.id = id
                                                  /\ call.status = newStatus
                                                  /\ call.exc # "QuotaExceededError"
                                               THEN "same" ELSE "none",
                                      !.before = GetReports(storage)]
            /\ UNCHANGED <<tabs, uiVars>>

\* Reports a view may read and sort: two ids at each clock reading, and a third
\* report at the earliest one.
SortInputs ==
    {NewReport(id, "Pothole", "Main St", "", "data:image/png;base64,AAAA",
               STATUS_PENDING, ToISOString(t)) : id \in ApiIds, t \in ClockReadings}
    \cup {NewReport("r3", "Pothole", "Main St", "", "data:image/png;base64,AAAA",
                    STATUS_RESOLVED, ToISOString(0))}

\* reports.sort(newest first) on an array a view read.
CallSortNewestFirst ==
    \E items \in SeqsUpTo(SortInputs, MaxSorted) :
        /\ call' = [NoCall EXCEPT !.op = "sortNewestFirst", !.reports = items,
                                  !.ret = JSArray(SortNewestFirst(items))]
        /\ UNCHANGED <<storage, tabs, uiVars>>

\* getReports().filter(r => r.status === status), as the views do after a
\* status change; filter is no function of what is no array.
CallFilterByStatus ==
    \E status \in Statuses :
        \E read \in {GetReports(storage)} :
            /\ call' = [NoCall EXCEPT
                          !.op = "filterByStatus",
                          !.filter = status,
                          !.reports = read.items,
                          !.exc = IF read.type = "array" THEN NoException ELSE "TypeError",
                          !.ret = JSArray(IF read.type = "array"
                                          THEN FilterByStatus(read.items, status)
                                          ELSE <<>>),
                          !.prev = IF call.op = "updateReportStatus" /\ call.exc = NoException
                                   THEN "updateReportStatus" ELSE "none",
                          !.id = IF call.op = "updateReportStatus" /\ call.exc = NoException
                                 THEN call.id ELSE "",
                          !.status = IF call.op = "updateReportStatus" /\ call.exc = NoException
                                     THEN call.status ELSE "",
                          !.before = IF call.op = "updateReportStatus" /\ call.exc = NoException
                                     THEN call.before ELSE JSArray(<<>>)]
            /\ UNCHANGED <<storage, tabs, uiVars>>

NextStore ==
    \/ CallGetReports
    \/ CallSaveReports
    \/ CallAddReport
    \/ CallUpdateReportStatus
    \/ CallFilterByStatus

SpecStore == InitStore /\ [][NextStore]_vars

SpecSlot == InitSlot /\ [][NextStore]_vars

\* The newest-first sort of the views applied to any array of reports.
NextSort == CallSortNewestFirst

SpecSort == InitStore /\ [][NextSort]_vars

----------------------------------------------------------------------------
(* Two tabs, each running one store mutation, their steps interleaved *)

\* Reports the tabs add and the store holds at first.
TabReports ==
    {NewReport("r1", "Pothole", "Main St", "", "data:image/png;base64,AAAA",
               STATUS_PENDING, ToISOString(0)),
     NewReport("r2", "Pothole", "Main St", "deep", "data:image/png;base64,AAAA",
               STATUS_RESOLVED, ToISOString(1))}

InitTabs ==
    /\ \E items \in SeqsUpTo(TabReports, MaxStored) :
           storage = SaveReports(AbsentSlot, items, TRUE).slot
    /\ call = NoCall
    /\ tabs = NoTabs
    /\ now = 0
    /\ Loaded(PAGE_USER, AbsentSlot)

\* Reading the slot at the save instead of using the array read before.
LoadedAtSave(tab, slot) == slot

\* The array `reports` a store function changes and saves: the one its
\* getReports() returned, whatever the slot holds by now.
LoadedBy(tab, slot) == tab.snapshot

\* const reports = getReports() of addReport or updateReportStatus in tab t.
TabLoad(t) ==
    /\ tabs[t].pc = "idle"
    /\ \E op \in {"addReport", "updateReportStatus"}, report \in TabReports,
          id \in ApiIds, status \in Statuses :
           tabs' = [tabs EXCEPT ![t] =
                       [IdleTab EXCEPT
                          !.pc = "loaded", !.op = op,
                          !.report = IF op = "addReport" THEN report ELSE <<>>,
                          !.id = IF op = "addReport" THEN "" ELSE id,
                          !.status = IF op = "addReport" THEN "" ELSE status,
                          !.snapshot = storage]]
    /\ UNCHANGED <<storage, call, uiVars>>

\* The rest of the function in tab t: the change of the array and saveReports.
TabPersist(t) ==
    /\ tabs[t].pc = "loaded"
    /\ \E writeOk \in BOOLEAN :
           \E out \in {IF tabs[t].op = "addReport"
                       THEN AddReport(LoadedBy(tabs[t], storage), tabs[t].report, writeOk)
                       ELSE UpdateReportStatus(LoadedBy(tabs[t], storage), tabs[t].id,
                                               tabs[t].status, writeOk)} :
               /\ storage' = IF out.setItem = "ok" THEN out.slot ELSE storage
               /\ tabs' = [tabs EXCEPT ![t] =
                              [@ EXCEPT !.pc = "done", !.exc = out.exc,
                                        !.setItem = out.setItem]]
    /\ UNCHANGED <<call, uiVars>>

NextTabs ==
    \E t \in Tabs :
        \/ TabLoad(t)
        \/ TabPersist(t)

SpecTabs == InitTabs /\ [][NextTabs]_vars

----------------------------------------------------------------------------
(* The loaded document: one tab, its events one at a time *)

Stored == GetReports(storage).items

Init ==
    /\ storage = AbsentSlot
    /\ call = NoCall
    /\ tabs = NoTabs
    /\ now = 0
    /\ \E p \in Pages : Loaded(p, storage)

\* Date.now() moves on to its next reading.
AdvanceClock ==
    /\ now + 1 \in ClockReadings
    /\ now' = now + 1
    /\ UNCHANGED <<storage, call, tabs, page, form, submitDisabled, formMessage,
                   modalHidden, pending, timers, phase, view, last>>

\* The user goes to page p (or reloads): a new document, DOMContentLoaded runs.
LoadPage ==
    \E p \in Pages :
        /\ page' = p
        /\ form' = FormDefault
        /\ submitDisabled' = FALSE
        /\ formMessage' = HiddenMessage
        /\ modalHidden' = TRUE
        /\ pending' = NoPending
        /\ timers' = 0
        /\ phase' = "Idle"
        /\ view' = InitPage(p, storage)
        /\ last' = Event("load")
        /\ UNCHANGED <<storage, call, tabs, now>>

\* openModal
OpenModal ==
    /\ HasModal(page) /\ modalHidden
    /\ modalHidden' = FALSE
    /\ last' = NoEvent
    /\ UNCHANGED <<storage, call, tabs, now, page, form, submitDisabled, formMessage,
                   pending, timers, phase, view>>

\* closeModal, from the close button or a click on the backdrop
CloseModal ==
    /\ HasModal(page) /\ ~modalHidden
    /\ modalHidden' = TRUE
    /\ last' = NoEvent
    /\ UNCHANGED <<storage, call, tabs, now, page, form, submitDisabled, formMessage,
                   pending, timers, phase, view>>

\* The submit handler without `submitBtn.disabled = true`.
SubmitStaysEnabled ==
    /\ HasModal(page) /\ ~modalHidden /\ ~submitDisabled
    /\ \E f \in FormValues :
        /\ form' = f
        /\ MissingRequired(f.category, f.location, f.photoFile) \/ Len(Stored) < MaxStored
        /\ IF MissingRequired(f.category, f.location, f.photoFile)
           THEN /\ formMessage' = ErrorShown("ValidationError")
                /\ pending' = NoPending
                /\ phase' = "Failed"
           ELSE /\ formMessage' = [formMessage EXCEPT !.hidden = TRUE]
                /\ pending' = [active |-> TRUE, category |-> f.category,
                               location |-> f.location, description |-> f.description,
                               photoFile |-> f.photoFile]
                /\ phase' = "ReadingImage"
    /\ submitDisabled' = FALSE
    /\ last' = Event("submit")
    /\ UNCHANGED <<storage, call, tabs, now, page, modalHidden, timers, view>>

\* The submit event with the inputs holding the values f, up to the throw of the
\* validation or to the await.  A disabled submit button lets no submit event
\* through.
Submit ==
    /\ HasModal(page) /\ ~modalHidden /\ ~submitDisabled
    /\ \E f \in FormValues :
        /\ form' = f
        /\ MissingRequired(f.category, f.location, f.photoFile) \/ Len(Stored) < MaxStored
        /\ IF MissingRequired(f.category, f.location, f.photoFile)
           THEN /\ formMessage' = ErrorShown("ValidationError")
                /\ submitDisabled' = FALSE
                /\ pending' = NoPending
                /\ phase' = "Failed"
           ELSE /\ formMessage' = [formMessage EXCEPT !.hidden = TRUE]
                /\ submitDisabled' = TRUE
                /\ pending' = [active |-> TRUE, category |-> f.category,
                               location |-> f.location, description |-> f.description,
                               photoFile |-> f.photoFile]
                /\ phase' = "ReadingImage"
    /\ last' = Event("submit")
    /\ UNCHANGED <<storage, call, tabs, now, page, modalHidden, timers, view>>

\* reader.onload: the handler resumes, builds the report and adds it.
ReadLoaded ==
    /\ pending.active
    /\ \E suffix \in RandomSuffixes, writeOk \in BOOLEAN :
        LET newReport ==
                NewReport(GenerateId(now, suffix), pending.category, pending.location,
                          pending.description, ReadAsDataURL(pending.photoFile),
                          STATUS_PENDING, ToISOString(now))
            out == AddReport(storage, newReport, writeOk)
        IN  /\ storage' = out.slot
            /\ IF out.exc = NoException
               THEN /\ formMessage' = SuccessShown
                    /\ form' = FormDefault
                    /\ timers' = timers + 1
                    /\ phase' = "Succeeded"
               ELSE /\ formMessage' = ErrorShown(out.exc)
                    /\ phase' = "Failed"
                    /\ UNCHANGED <<form, timers>>
            /\ last' = [Event("readLoaded") EXCEPT
                          !.id = Id(newReport), !.writes = <<out.setItem>>,
                          !.excs = <<out.exc>>]
    /\ submitDisabled' = FALSE
    /\ pending' = NoPending
    /\ UNCHANGED <<call, tabs, now, page, modalHidden, view>>

\* reader.onerror: the await throws the ProgressEvent, the catch block runs.
ReadFailed ==
    /\ pending.active
    /\ formMessage' = ErrorShown("ProgressEvent")
    /\ submitDisabled' = FALSE
    /\ pending' = NoPending
    /\ phase' = "Failed"
    /\ last' = Event("readFailed")
    /\ UNCHANGED <<storage, call, tabs, now, page, form, modalHidden, timers, view>>

\* The callback of setTimeout(..., 2000) after a success.
DismissTimer ==
    /\ timers > 0
    /\ timers' = timers - 1
    /\ modalHidden' = TRUE
    /\ formMessage' = [formMessage EXCEPT !.hidden = TRUE]
    /\ view' = IF page = PAGE_EXPLORE THEN InitExplorePage(storage, view) ELSE view
    /\ last' = NoEvent
    /\ UNCHANGED <<storage, call, tabs, now, page, form, submitDisabled, pending, phase>>

\* handleFilterClick: a sidebar link of the authority dashboard.
FilterClick ==
    /\ page = PAGE_AUTHORITY
    /\ \E f \in Filters \ {view.currentFilter} :
        view' = RenderComplaintList([view EXCEPT !.currentFilter = f])
    /\ last' = NoEvent
    /\ UNCHANGED <<storage, call, tabs, now, page, form, submitDisabled, formMessage,
                   modalHidden, pending, timers, phase>>

\* The click listener of the complaint list, on a status button of card i.  An
\* exception out of updateReportStatus ends the handler before the re-render.
StatusClick ==
    /\ page = PAGE_AUTHORITY
    /\ \E i \in 1..Len(view.rendered), writeOk \in BOOLEAN :
        \E newStatus \in StatusButtons(view.rendered[i]) :
            LET reportId == Id(view.rendered[i])
                out == UpdateReportStatus(storage, reportId, newStatus, writeOk)
            IN  /\ storage' = out.slot
                /\ view' = IF out.exc = NoException
                           THEN RenderComplaintList(UpdateStatistics(
                                    [view EXCEPT !.allReports = GetReports(out.slot).items]))
                           ELSE view
                /\ last' = [Event("statusClick") EXCEPT
                              !.id = reportId, !.status = newStatus,
                              !.shown = Status(view.rendered[i]),
                              !.writes = <<out.setItem>>, !.excs = <<out.exc>>]
    /\ UNCHANGED <<call, tabs, now, page, form, submitDisabled, formMessage, modalHidden,
                   pending, timers, phase>>

\* One click listener of the table body on a click on a Reopen button: acc is
\* the slot and view so far.  An exception out of updateReportStatus ends the
\* listener before initMyReports re-renders and adds the next listener.
ReopenListenerAfter(acc, out) ==
    [slot |-> out.slot,
     view |-> IF out.exc = NoException THEN InitMyReports(out.slot, acc.view)
              ELSE acc.view,
     writes |-> Append(acc.writes, out.setItem),
     excs |-> Append(acc.excs, out.exc)]

ReopenListener(acc, reportId, writeOk) ==
    ReopenListenerAfter(acc, UpdateReportStatus(acc.slot, reportId, STATUS_PENDING, writeOk))

\* The listeners the table body carries at the click, run one after the other;
\* oks[k] is whether the write of listener k succeeds.  A listener added
\* meanwhile is not run for this click.
RunReopenListeners(reportId, oks, acc) ==
    LET after[k \in 0..Len(oks)] ==
            IF k = 0 THEN acc ELSE ReopenListener(after[k - 1], reportId, oks[k])
    IN  after[Len(oks)]

\* A click on the Reopen button of row i of My Reports.
ReopenClick ==
    /\ page = PAGE_MY_REPORTS
    /\ \E i \in 1..Len(view.rendered) :
        /\ HasReopenButton(view.rendered[i])
        /\ \E oks \in [1..view.tbodyListeners -> BOOLEAN] :
            \E out \in {RunReopenListeners(Id(view.rendered[i]), oks,
                            [slot |-> storage, view |-> view, writes |-> <<>>,
                             excs |-> <<>>])} :
                /\ storage' = out.slot
                /\ view' = out.view
                /\ last' = [Event("reopenClick") EXCEPT
                              !.id = Id(view.rendered[i]), !.status = STATUS_PENDING,
                              !.shown = Status(view.rendered[i]),
                              !.writes = out.writes, !.excs = out.excs]
    /\ UNCHANGED <<call, tabs, now, page, form, submitDisabled, formMessage, modalHidden,
                   pending, timers, phase>>

Next ==
    \/ AdvanceClock
    \/ LoadPage
    \/ OpenModal
    \/ CloseModal
    \/ Submit
    \/ ReadLoaded
    \/ ReadFailed
    \/ DismissTimer
    \/ FilterClick
    \/ StatusClick
    \/ ReopenClick

Spec == Init /\ [][Next]_vars

----------------------------------------------------------------------------
(* Properties of the data store functions (SpecStore, SpecSlot) *)

\* C1: getReports() called right after a saveReports(reports) that returned
\* gives an array equal to reports, element by element and in the same order.
RoundTrip ==
    (call.op = "getReports" /\ call.prev = "saveReports")
        => call.ret = JSArray(call.reports)

\* A read after the save of two different reports, one with an empty description.
RoundTripWitness ==
    /\ call.op = "getReports" /\ call.prev = "saveReports"
    /\ Len(call.reports) = 2
    /\ call.reports[1] # call.reports[2]
    /\ \E i \in 1..2 : Get(call.reports[i], "description") = ""
    /\ call.ret.items = call.reports

\* The slot holds text JSON.parse reads as an array.
HoldsArray(slot) ==
    /\ slot.present /\ slot.text # <<>>
    /\ JSONParse(slot.text).ok
    /\ JSONParse(slot.text).value.type = "array"

\* C2: whatever the slot holds, getReports() throws nothing and returns an
\* array, the empty one when the slot is absent or holds no array of reports.
LoadAllFailsSoft ==
    call.op = "getReports" =>
        /\ call.exc = NoException
        /\ call.ret.type = "array"
        /\ ~HoldsArray(storage) => call.ret.items = <<>>

\* C4: an addReport(report) that returned left in the slot the text
\* saveReports would store for the reports read before with report added last,
\* so that getReports() gives those reports unchanged, in their places, then
\* report; it stores the report whatever its fields hold.
AppendIsLast ==
    (call.op = "addReport" /\ call.exc = NoException) =>
        /\ storage = SaveReports(storage, Append(call.before.items, call.report), TRUE).slot
        /\ GetReports(storage) = JSArray(Append(call.before.items, call.report))
        /\ \A i \in 1..Len(call.before.items) :
               GetReports(storage).items[i] = call.before.items[i]

\* A report with empty fields and an unknown status added after a different one.
AppendIsLastWitness ==
    /\ call.op = "addReport" /\ call.exc = NoException
    /\ Len(call.before.items) = 1
    /\ call.before.items[1] # call.report
    /\ Get(call.report, "category") = ""
    /\ Status(call.report) \notin Statuses
    /\ Len(GetReports(storage).items) = 2
    /\ GetReports(storage).items[2] = call.report

\* C5: whatever the slot holds, updateReportStatus(id, status) with an id no
\* stored report has throws nothing and leaves the slot as it was.
MissingIdIsNoOp ==
    (/\ call.op = "updateReportStatus"
     /\ \A i \in 1..Len(call.before.items) : Id(call.before.items[i]) # call.id)
        => /\ call.exc = NoException
           /\ GetReports(storage) = call.before

----------------------------------------------------------------------------
(* Properties of the loaded document (Spec) *)

\* The events whose handler calls updateReportStatus.
ClickOps == {"statusClick", "reopenClick"}

\* C3: when a setItem of a handler's store call fails, that call throws the
\* QuotaExceededError to the handler; when no write of the event succeeded the
\* slot is as before; the submit handler then ends in Failed with the error
\* shown in red and no dismiss timer started, and the one listener of a click
\* ends before it renders the view again.
WriteFailureSurfaces ==
    [][\A k \in 1..Len(last'.writes) :
           last'.writes[k] = "failed" =>
               /\ last'.excs[k] = "QuotaExceededError"
               /\ (\A j \in 1..Len(last'.writes) : last'.writes[j] # "ok")
                      => storage' = storage
               /\ last'.op = "readLoaded" =>
                      /\ phase' = "Failed"
                      /\ formMessage' = [hidden |-> FALSE,
                                         text |-> "Error: The quota has been exceeded.",
                                         tone |-> "red"]
                      /\ timers' = timers
               /\ (last'.op \in ClickOps /\ Len(last'.writes) = 1) => view' = view]_vars

\* A submission whose write failed, with a report already stored.
WriteFailureSurfacesWitness ==
    /\ last.op = "readLoaded"
    /\ last.writes = <<"failed">>
    /\ phase = "Failed"
    /\ ~formMessage.hidden
    /\ Len(Stored) = 1

\* C6: no two stored reports have the same id.
IdsUnique ==
    \A stored \in {Stored} :
        \A i, j \in 1..Len(stored) : Id(stored[i]) = Id(stored[j]) => i = j

\* The status changes the spec's lifecycle names, and those the buttons of the
\* views ask for.
LifecycleTransitions ==
    {<<STATUS_PENDING, STATUS_IN_PROGRESS>>, <<STATUS_IN_PROGRESS, STATUS_RESOLVED>>,
     <<STATUS_RESOLVED, STATUS_PENDING>>}

ButtonTransitions ==
    LifecycleTransitions \cup {<<STATUS_PENDING, STATUS_RESOLVED>>}

\* The report at place i of the new collection is new, and Pending, or has the
\* status it had, or changed it by one of the transitions.
StepWithin(transitions, old, new) ==
    \A i \in 1..Len(new) :
        IF i > Len(old) THEN Status(new[i]) = STATUS_PENDING
        ELSE \/ Status(new[i]) = Status(old[i])
             \/ <<Status(old[i]), Status(new[i])>> \in transitions

\* C7 as stated: a report is created Pending and its status changes only by
\* Pending -> In Progress, In Progress -> Resolved or Resolved -> Pending.
OnlyLifecycleTransitions ==
    [][\A old \in {Stored}, new \in {GetReports(storage').items} :
           StepWithin(LifecycleTransitions, old, new)]_vars

\* C7, amended: a report is created Pending; its status changes only in a
\* click on a status button or Reopen button of a card or row of a report with
\* its id, and the status shown there with the new status is one of
\* Pending -> In Progress, Pending -> Resolved, In Progress -> Resolved,
\* Resolved -> Pending; the change of a report that shares its id with no other
\* stored report is itself one of these four.
OnlyButtonTransitions ==
    [][\A old \in {Stored}, new \in {GetReports(storage').items} :
           \A i \in 1..Len(new) :
               IF i > Len(old) THEN Status(new[i]) = STATUS_PENDING
               ELSE Status(new[i]) # Status(old[i]) =>
                       /\ last'.op \in ClickOps
                       /\ last'.id = Id(old[i])
                       /\ last'.status = Status(new[i])
                       /\ <<last'.shown, Status(new[i])>> \in ButtonTransitions
                       /\ (\A j \in 1..Len(old) : Id(old[j]) = Id(old[i]) => j = i)
                              => <<Status(old[i]), Status(new[i])>> \in ButtonTransitions]_vars

\* 'Mark Resolved' clicked on the card of a Pending report, which is Resolved now.
OnlyButtonTransitionsWitness ==
    /\ last.op = "statusClick"
    /\ last.shown = STATUS_PENDING
    /\ last.status = STATUS_RESOLVED
    /\ last.writes = <<"ok">>
    /\ \E i \in 1..Len(Stored) :
           Id(Stored[i]) = last.id /\ Status(Stored[i]) = STATUS_RESOLVED

\* C8: every stored report has one of the three statuses and a non-empty
\* category, location and imageData.
StoredReportsValid ==
    \A stored \in {Stored} :
        \A i \in 1..Len(stored) :
            /\ Status(stored[i]) \in {"Pending", "In Progress", "Resolved"}
            /\ Get(stored[i], "category") \notin {"", Undefined}
            /\ Get(stored[i], "location") \notin {"", Undefined}
            /\ Get(stored[i], "imageData") \notin {"", Undefined}

\* Two stored reports after status clicks, one Resolved and one In Progress.
StoredReportsValidWitness ==
    /\ Len(Stored) = 2
    /\ \E i, j \in 1..2 :
           /\ Status(Stored[i]) = STATUS_RESOLVED
           /\ Status(Stored[j]) = STATUS_IN_PROGRESS
    /\ last.op = "statusClick"

\* The fields of a report that are set at its creation.
CreationFields ==
    {"id", "category", "location", "description", "imageData", "submittedAt"}

\* C9: a step removes no stored report and keeps every stored report at its
\* place with the fields set at its creation; only a click that updates the
\* status changes a report, and then only the status of one report with the
\* id of the click.
ReportsPersist ==
    [][\A old \in {Stored}, new \in {GetReports(storage').items} :
           /\ Len(new) >= Len(old)
           /\ \A i \in 1..Len(old) :
                  /\ \A f \in CreationFields : Get(new[i], f) = Get(old[i], f)
                  /\ [k \in 1..Len(new[i]) |-> new[i][k][1]]
                        = [k \in 1..Len(old[i]) |-> old[i][k][1]]
                  /\ new[i] # old[i] =>
                        /\ last'.op \in ClickOps
                        /\ Id(old[i]) = last'.id
                        /\ \A j \in 1..Len(old) : new[j] # old[j] => j = i]_vars

\* A status click that changed the second of two stored reports.
ReportsPersistWitness ==
    /\ last.op = "statusClick"
    /\ last.writes = <<"ok">>
    /\ Len(Stored) = 2
    /\ Id(Stored[2]) = last.id
    /\ Id(Stored[1]) # last.id
    /\ Status(Stored[2]) = last.status

\* C10: a submit event with the category or the location empty or no file
\* chosen ends in Failed with 'Please fill out all required fields and add a
\* photo.' shown as the error, starts no image read and leaves the slot as it was.
InvalidSubmitFails ==
    [][(/\ last'.op = "submit"
        /\ (form'.category = "" \/ form'.location = "" \/ form'.photoFile = NoFile))
          => /\ phase' = "Failed"
             /\ formMessage' =
                    [hidden |-> FALSE,
                     text |-> "Error: Please fill out all required fields and add a photo.",
                     tone |-> "red"]
             /\ ~pending'.active
             /\ ~submitDisabled'
             /\ storage' = storage]_vars

\* A submit event without a file, with a report already stored.
InvalidSubmitFailsWitness ==
    /\ last.op = "submit"
    /\ form.photoFile = NoFile
    /\ phase = "Failed"
    /\ ~formMessage.hidden
    /\ ~pending.active
    /\ Len(Stored) = 1

\* C11: a submission whose image read succeeded and whose write succeeded
\* leaves the stored reports as they were, followed by one new report that is
\* Pending, has the submitted category, location and description and the data
\* URL of the file, and has an id no report stored before has.
SubmissionAddsOne ==
    [][(pending.active /\ last'.op = "readLoaded" /\ last'.writes = <<"ok">>) =>
           \A old \in {Stored}, new \in {GetReports(storage').items} :
               /\ Len(new) = Len(old) + 1
               /\ SubSeq(new, 1, Len(old)) = old
               /\ new[Len(new)] =
                      NewReport(last'.id, pending.category, pending.location,
                                pending.description,
                                "data:image/png;base64," \o Base64(pending.photoFile),
                                "Pending", Get(new[Len(new)], "submittedAt"))
               /\ \A i \in 1..Len(old) : Id(old[i]) # last'.id]_vars

\* C12: while the last attempt stands as Failed its error is shown, the submit
\* button is enabled and the inputs hold the values submitted, also after the
\* dismiss callback of an earlier success ran.
FailureStaysVisible ==
    phase = "Failed" =>
        /\ ~formMessage.hidden
        /\ formMessage.tone = "red"
        /\ ~submitDisabled
        /\ form \in FormValues

\* C13: while an image read is awaited the submit button is disabled and the
\* attempt is the one that was started, not another; the step in which the
\* read completes or fails ends the attempt in Succeeded or Failed with the
\* button enabled again.
OneAttemptAtATime ==
    [][/\ pending'.active => (submitDisabled' /\ phase' = "ReadingImage")
       /\ (pending.active /\ pending'.active) => pending' = pending
       /\ (pending.active /\ last'.op \in {"readLoaded", "readFailed"}) =>
              /\ ~pending'.active
              /\ phase' \in {"Succeeded", "Failed"}
              /\ ~submitDisabled']_vars

\* An image read awaited while the dismiss callback of an earlier success is
\* still to run.
OneAttemptAtATimeWitness ==
    /\ pending.active
    /\ submitDisabled
    /\ timers > 0
    /\ ~modalHidden

\* C18: a click on a Reopen button makes one updateReportStatus call, and the
\* table body of My Reports carries one click listener however often the table
\* was rendered.
ReopenHandledOnce ==
    /\ last.op = "reopenClick" => Len(last.writes) = 1
    /\ page = PAGE_MY_REPORTS => view.tbodyListeners <= 1

----------------------------------------------------------------------------
(* Further properties of the data store and query functions *)

\* C15: an updateReportStatus(id, status) called right after the same call
\* leaves the stored collection as that first call left it, whatever the slot
\* held and whatever id and status are.
UpdateIsIdempotent ==
    (call.op = "updateReportStatus" /\ call.prev = "same")
        => GetReports(storage) = call.before

\* The second of two equal calls that returned, the first of which changed the
\* status of the second of two stored reports.
UpdateIsIdempotentWitness ==
    /\ call.op = "updateReportStatus" /\ call.prev = "same"
    /\ call.exc = NoException
    /\ \E stored \in {GetReports(storage).items} :
           /\ Len(stored) = 2
           /\ Id(stored[1]) # call.id
           /\ Id(stored[2]) = call.id
           /\ Status(stored[2]) = call.status
           /\ call.status = STATUS_IN_PROGRESS

\* new Date(report.submittedAt) as a number.
SubmittedAt(report) == DateParse(Get(report, "submittedAt"))

\* C16: the newest-first sort returns the reports of its input, each once, in
\* descending order of submittedAt, and reports with the same submittedAt in
\* the order they had in the input.
SortIsStable ==
    call.op = "sortNewestFirst" =>
        \A in \in {call.reports}, out \in {call.ret.items} :
            /\ Len(out) = Len(in)
            /\ \E p \in [1..Len(in) -> 1..Len(in)] :
                   /\ \A k, l \in 1..Len(in) : p[k] = p[l] => k = l
                   /\ \A k \in 1..Len(in) : out[k] = in[p[k]]
                   /\ \A k, l \in 1..Len(in) :
                          k < l =>
                              \/ SubmittedAt(out[k]) > SubmittedAt(out[l])
                              \/ /\ SubmittedAt(out[k]) = SubmittedAt(out[l])
                                 /\ p[k] < p[l]

\* Two different reports of the same time with a newer one between them.
SortIsStableWitness ==
    /\ call.op = "sortNewestFirst"
    /\ Len(call.reports) = 3
    /\ SubmittedAt(call.reports[1]) = SubmittedAt(call.reports[3])
    /\ call.reports[1] # call.reports[3]
    /\ SubmittedAt(call.reports[2]) > SubmittedAt(call.reports[1])
    /\ call.ret.items = <<call.reports[2], call.reports[1], call.reports[3]>>

\* C17: the filter by a status returns the reports of the array that have
\* that status, all of them, in the order of the array; after an
\* updateReportStatus(id, status) that found a stored report, the re-read
\* collection filtered by status holds that report, and filtered by the status
\* the report had before (another one) it does not.
FilterIsExact ==
    (call.op = "filterByStatus" /\ call.exc = NoException) =>
        \A in \in {call.reports}, out \in {call.ret.items} :
            /\ Len(out) = Cardinality({i \in 1..Len(in) : Status(in[i]) = call.filter})
            /\ \A i \in 1..Len(in) :
                   Status(in[i]) = call.filter =>
                       out[Cardinality({j \in 1..i : Status(in[j]) = call.filter})] = in[i]
            /\ call.prev = "updateReportStatus" =>
                   \A i \in 1..Len(call.before.items) :
                       (/\ Id(call.before.items[i]) = call.id
                        /\ \A j \in 1..(i - 1) : Id(call.before.items[j]) # call.id) =>
                           /\ call.filter = call.status =>
                                  \E k \in 1..Len(out) : out[k] = in[i] /\ Id(out[k]) = call.id
                           /\ (/\ call.filter = Status(call.before.items[i])
                               /\ call.filter # call.status) =>
                                  \A k \in 1..Len(out) : out[k] # in[i]

\* A Resolved report stored after a Pending one was set to Pending; the filter
\* by Pending gives both, in their order.
FilterIsExactWitness ==
    /\ call.op = "filterByStatus" /\ call.prev = "updateReportStatus"
    /\ call.filter = STATUS_PENDING /\ call.status = STATUS_PENDING
    /\ Len(call.before.items) = 2
    /\ Id(call.before.items[2]) = call.id
    /\ Id(call.before.items[1]) # call.id
    /\ Status(call.before.items[2]) = STATUS_RESOLVED
    /\ Len(call.ret.items) = 2
    /\ call.ret.items = call.reports

----------------------------------------------------------------------------
(* Properties of two tabs (SpecTabs) *)

\* C14: when a tab's store function saves, the stored collection becomes the
\* array that tab read with that tab's own change and nothing else, whatever
\* the other tab stored since the read; the witness is a run in which both
\* functions returned and the report one of them added is not stored.
LastWriterWins ==
    [][\A t \in Tabs :
           (tabs[t].pc = "loaded" /\ tabs'[t].pc = "done" /\ tabs'[t].setItem = "ok") =>
               \A read \in {GetReports(tabs[t].snapshot).items},
                  new \in {GetReports(storage').items} :
                   IF tabs[t].op = "addReport"
                   THEN new = Append(read, tabs[t].report)
                   ELSE /\ Len(new) = Len(read)
                        /\ \A i \in 1..Len(read) :
                               new[i] =
                                   IF /\ Id(read[i]) = tabs[t].id
                                      /\ \A j \in 1..(i - 1) : Id(read[j]) # tabs[t].id
                                   THEN SetProp(read[i], "status", tabs[t].status)
                                   ELSE read[i]]_vars

\* Both tabs are done without an exception, each after a write that succeeded;
\* one added a report, the other changed a status, and the added report is
\* not in the store.
LastWriterWinsWitness ==
    \E t, u \in Tabs :
        /\ t # u
        /\ tabs[t].pc = "done" /\ tabs[u].pc = "done"
        /\ tabs[t].exc = NoException /\ tabs[u].exc = NoException
        /\ tabs[t].setItem = "ok" /\ tabs[u].setItem = "ok"
        /\ tabs[t].op = "addReport" /\ tabs[u].op = "updateReportStatus"
        /\ \A stored \in {GetReports(storage).items} :
               \A i \in 1..Len(stored) : Id(stored[i]) # Id(tabs[t].report)

=============================================================================
